---- MODULE Spec2Model ----
(***************************************************************************)
(* LSB-matching steganography (stego.py): password-seeded position         *)
(* scheduling, local-complexity gating, +-1 bit mutation, bit reading and  *)
(* the bit/byte codec.                                                     *)
(*                                                                         *)
(* 32-bit quantities (seed, generator state) are kept as pairs <<hi, lo>>  *)
(* of 16-bit limbs, value = hi * 65536 + lo, so that every intermediate    *)
(* product stays inside the checker's integer range while the arithmetic   *)
(* is still exactly the code's arithmetic modulo 2^32.                     *)
(***************************************************************************)
EXTENDS Integers, Sequences, FiniteSets, TLC

VARIABLES
    inFile,          \* the image file at input_path: [width, height, px]
    password,        \* password argument (sequence of code points)
    complexity_threshold,
    message_bits,    \* bits handed to embed; num_bits of extract is its length
    pc,              \* position of the program
    err,             \* kind of the exception raised by the last call, or "none"
    pixels,          \* pixel buffer of the call in progress (img.load())
    width, height,   \* size of the loaded image
    prng,            \* SimplePRNG.state, as limbs
    attempts,
    embedded,
    used_positions,
    extracted,       \* list of bits built by extract
    returned,        \* what extract_message_bits returned: <<>> or <<bits>>
    outFile,         \* the file written by img.save: <<>> or <<px>>
    draws,           \* number of next_u32 calls made by the call in progress
    dirDraws,        \* number of direction draws taken by embed
    embedPos,        \* positions accepted by embed, in order
    extractPos,      \* positions accepted by extract, in order
    source,          \* which file extract loaded: "none", "input" or "output"
    cdata, cbits, cout, cpc   \* bit/byte codec: input bytes, bits, output bytes

vars == <<inFile, password, complexity_threshold, message_bits, pc, err,
          pixels, width, height, prng, attempts, embedded, used_positions,
          extracted, returned, outFile, draws, dirDraws, embedPos, extractPos,
          source, cdata, cbits, cout, cpc>>

stegoVars == <<inFile, password, complexity_threshold, message_bits, pc, err,
          pixels, width, height, prng, attempts, embedded, used_positions,
          extracted, returned, outFile, draws, dirDraws, embedPos, extractPos,
          source>>

codecVars == <<cdata, cbits, cout, cpc>>

(***************************************************************************)
(* Bounds of the model                                                     *)
(***************************************************************************)
MaxWidth == 4
MaxHeight == 3
MaxMsgLen == 2
MaxPwLen == 1
MaxBytes == 2

(***************************************************************************)
(* Program constants                                                       *)
(***************************************************************************)
Limb == 65536
LcgMulHi == 16838        \* 1103515245 = 16838 * 65536 + 20077
LcgMulLo == 20077
LcgInc == 12345
FallbackHi == 57005      \* 0xDEADBEEF = 0xDEAD * 65536 + 0xBEEF
FallbackLo == 48879
ShiftWrap == 24
MaxChannel == 255
DefaultAttemptFactor == 4
DefaultThreshold == 20
RgbChannels == 3
IndexError == -1         \* marker: the pixel access raised IndexError

(***************************************************************************)
(* Utilities                                                               *)
(***************************************************************************)
RECURSIVE Xor16(_, _)
Xor16(a, b) ==
    IF a = 0 THEN b
    ELSE IF b = 0 THEN a
    ELSE (((a % 2) + (b % 2)) % 2) + (2 * Xor16(a \div 2, b \div 2))

Xor32(p, q) == <<Xor16(p[1], q[1]), Xor16(p[2], q[2])>>

RECURSIVE Shl32(_, _)
\* (p << k) & 0xFFFFFFFF
Shl32(p, k) ==
    IF k = 0 THEN p
    ELSE Shl32(<<((p[1] * 2) + (p[2] \div 32768)) % Limb, (p[2] * 2) % Limb>>, k - 1)

RECURSIVE SeedAccumulate(_, _, _)
\* the loop of derive_seed_from_password from index i (0-based) on
SeedAccumulate(pw, i, seed) ==
    IF i >= Len(pw) THEN seed
    ELSE SeedAccumulate(pw, i + 1,
            Xor32(seed, Shl32(<<pw[i + 1] \div Limb, pw[i + 1] % Limb>>, i % ShiftWrap)))

\* the zero remap left out
MutDeriveSeedNoFallback(pw) == SeedAccumulate(pw, 0, <<0, 0>>)

derive_seed_from_password(pw) ==
    LET seed == SeedAccumulate(pw, 0, <<0, 0>>)
    IN  IF seed # <<0, 0>> THEN seed ELSE <<FallbackHi, FallbackLo>>

\* SimplePRNG.next_u32: (1103515245 * state + 12345) & 0xFFFFFFFF
next_u32(s) ==
    LET t == (LcgMulLo * s[2]) + LcgInc
    IN  <<((t \div Limb) + ((LcgMulHi * s[2]) % Limb) + ((LcgMulLo * s[1]) % Limb)) % Limb,
          t % Limb>>

\* pos_rand % total_capacity_bits
ModCap(s, cap) == (((s[1] % cap) * (Limb % cap)) + (s[2] % cap)) % cap

\* prng.next_u32() & 1
LowBit(s) == s[2] % 2

Abs(n) == IF n < 0 THEN -n ELSE n
Min(a, b) == IF a < b THEN a ELSE b
Max(a, b) == IF a > b THEN a ELSE b

clamp(v, lo, hi) == Max(lo, Min(v, hi))

\* PixelAccess.__getitem__ of the imaging library: an index outside the
\* width x height grid raises IndexError
InGrid(x, y, w, h) == x >= 0 /\ x < w /\ y >= 0 /\ y < h

PixelAt(px, x, y, w) == px[(y * w) + x]

\* lines 70-71: sum over the first 3 channels of |nb[c] - center[c]|
ChannelDiff(nb, center) ==
    Abs(nb[1] - center[1]) + Abs(nb[2] - center[2]) + Abs(nb[3] - center[3])

\* line 66: the offsets of the four 4-connected neighbours
NeighbourOffsets == {<<-1, 0>>, <<1, 0>>, <<0, -1>>, <<0, 1>>}

\* the pixels are tuples here (load_image hands over RGB or RGBA only), so the
\* scalar branches of lines 63-64 and 68-69 are never taken
compute_local_complexity(px, x, y, w, h) ==
    LET cx == clamp(x, 1, w - 2)
        cy == clamp(y, 1, h - 2)
    IN  IF ~InGrid(cx, cy, w, h) THEN IndexError
        ELSE IF \E d \in NeighbourOffsets : ~InGrid(cx + d[1], cy + d[2], w, h) THEN IndexError
        ELSE ChannelDiff(PixelAt(px, cx - 1, cy, w), PixelAt(px, cx, cy, w))
               + ChannelDiff(PixelAt(px, cx + 1, cy, w), PixelAt(px, cx, cy, w))
               + ChannelDiff(PixelAt(px, cx, cy - 1, w), PixelAt(px, cx, cy, w))
               + ChannelDiff(PixelAt(px, cx, cy + 1, w), PixelAt(px, cx, cy, w))

\* alpha not set aside: every channel of the pixel is usable
MutUsableChannelsAll(num_channels) == num_channels

\* usable_channels = 3 if num_channels >= 3 else num_channels
UsableChannels(num_channels) ==
    IF num_channels >= RgbChannels THEN RgbChannels ELSE num_channels

total_capacity_bits(w, h, px) == (w * h) * UsableChannels(Len(px[0]))

Capacity == total_capacity_bits(width, height, pixels)
max_attempts == Capacity * DefaultAttemptFactor

(***************************************************************************)
(* Inputs                                                                  *)
(***************************************************************************)
Palette == {<<0, 0, 0>>, <<255, 255, 255>>, <<100, 100, 100>>, <<105, 100, 100>>}
\* RGBA images take two of the colours, with alpha 200
Colours == Palette \cup {Append(c, 200) : c \in {<<0, 0, 0>>, <<105, 100, 100>>}}

Widths == {1, MaxWidth}
Heights == {1, MaxHeight}

\* which pixels of a w x h image get the second colour: none (flat image),
\* the left column, or every odd pixel index
Masks(w, h) == { {}, {i \in 0..(w * h - 1) : i % w = 0}, {i \in 0..(w * h - 1) : i % 2 = 1} }

ImagesOfSize(w, h) ==
    { [width |-> w, height |-> h,
       px |-> [i \in 0..(w * h - 1) |-> IF i \in abm[3] THEN abm[2] ELSE abm[1]]] :
         abm \in {t \in Colours \X Colours \X Masks(w, h) : Len(t[1]) = Len(t[2])} }

Images == UNION { ImagesOfSize(wh[1], wh[2]) : wh \in Widths \X Heights }

Chars == {1, 120}
RECURSIVE SeqsUpTo(_, _)
SeqsUpTo(S, n) ==
    IF n = 0 THEN {<<>>}
    ELSE LET shorter == SeqsUpTo(S, n - 1)
         IN  shorter \cup {Append(q, e) : q \in {r \in shorter : Len(r) = n - 1}, e \in S}

Passwords == SeqsUpTo(Chars, MaxPwLen)
Thresholds == {0, 1, DefaultThreshold}

\* the short messages, and for each image the two constant messages that fill
\* its capacity exactly and the one that exceeds it by one bit
Messages(im) ==
    LET cap == total_capacity_bits(im.width, im.height, im.px)
    IN  SeqsUpTo({0, 1}, MaxMsgLen)
          \cup {[k \in 1..cap |-> 0], [k \in 1..cap |-> 1], [k \in 1..(cap + 1) |-> 0]}

(***************************************************************************)
(* Initial state: the files and arguments exist, nothing has been called   *)
(***************************************************************************)
\* no call has run yet: the locals of embed and extract are unset
StegoIdle ==
    /\ pc = "idle"
    /\ err = "none"
    /\ pixels = <<>>
    /\ width = 0
    /\ height = 0
    /\ prng = <<0, 0>>
    /\ attempts = 0
    /\ embedded = 0
    /\ used_positions = {}
    /\ extracted = <<>>
    /\ returned = <<>>
    /\ outFile = <<>>
    /\ draws = 0
    /\ dirDraws = 0
    /\ embedPos = <<>>
    /\ extractPos = <<>>
    /\ source = "none"

StegoInit ==
    /\ inFile \in Images
    /\ password \in Passwords
    /\ complexity_threshold \in Thresholds
    /\ message_bits \in Messages(inFile)
    /\ StegoIdle

CodecIdle ==
    /\ cdata = <<>>
    /\ cbits = <<>>
    /\ cout = <<>>
    /\ cpc = "off"

Init == StegoInit /\ CodecIdle

(***************************************************************************)
(* Pieces of the embed and extract loops                                   *)
(***************************************************************************)
\* the guard off by one: a message one bit too long gets through
MutCapacityExceeded(n, cap) == n > cap + 1

\* line 98 / line 191: the capacity guard
CapacityExceeded(n, cap) == n > cap

\* the budget test off by one: one iteration too many
MutLoopCondition(done, required, att, maxAtt) == done < required /\ att <= maxAtt

\* line 109 / line 202: the loop condition
LoopCondition(done, required, att, maxAtt) == done < required /\ att < maxAtt

\* the filter with <= : a position exactly at the threshold is rejected
MutComplexityRejectsAtThreshold(c, t) == c <= t

\* the filter off by one: a position one below the threshold is accepted
MutComplexityRejectsBelow(c, t) == c < t - 1

\* line 121 / line 211: the complexity filter rejects the position
ComplexityRejects(c, t) == c < t

\* the used-position test left out
MutAlreadyUsed(pos, used) == FALSE

\* line 125 / line 213: the position was already consumed
AlreadyUsed(pos, used) == pos \in used

\* the check after the loop left out
MutEndedShort(done, required) == FALSE

\* line 154 / line 222: the loop ended short of the required count
EndedShort(done, required) == done < required

\* the whole value compared with the bit, not its least-significant bit
MutNeedsChangeWholeValue(current, target_bit) == current # target_bit

\* lines 135-143: does the step change the value, does it draw a direction
NeedsChange(current, target_bit) == (current % 2) # target_bit
NeedsDirectionDraw(current) == current # 0 /\ current # MaxChannel

\* the step always goes up: no edge cases, no direction
MutNewValueAlwaysUp(current, dirBit) == current + 1

\* lines 137-143: the new channel value; dirBit is prng.next_u32() & 1
NewValue(current, dirBit) ==
    IF current = 0 THEN 1
    ELSE IF current = MaxChannel THEN MaxChannel - 1
    ELSE current + (IF dirBit = 1 THEN 1 ELSE -1)

\* the reader returns the complement of the bit
MutReadBitInverted(v) == 1 - (v % 2)

\* the reader masks the wrong bit
MutReadBit(v) == (v \div 2) % 2

\* line 218: int(pix_list[channel_index]) & 1
ReadBit(v) == v % 2

\* lines 112-118 / 205-209: position -> pixel index, channel, x, y
PixelIndex(pos, usable) == pos \div usable
ChannelIndex(pos, usable) == pos % usable
XOf(pixel_index, w) == pixel_index % w
YOf(pixel_index, w) == pixel_index \div w

\* lines 144-146: write the new value into the targeted channel only
SetChannel(px, pixel_index, channel_index, v) ==
    [px EXCEPT ![pixel_index] = [@ EXCEPT ![channel_index + 1] = v]]

(***************************************************************************)
(* embed_message_bits                                                      *)
(***************************************************************************)
\* lines 87-107: load, capacity guard, seed the generator, reset the counters
EmbedCall ==
    /\ pc = "idle"
    /\ pixels' = inFile.px
    /\ width' = inFile.width
    /\ height' = inFile.height
    /\ LET cap == total_capacity_bits(inFile.width, inFile.height, inFile.px)
       IN  IF CapacityExceeded(Len(message_bits), cap)
           THEN /\ pc' = "embed_raised"
                /\ err' = "CapacityExceeded"
                /\ UNCHANGED prng
           ELSE /\ pc' = "embed_loop"
                /\ err' = "none"
                /\ prng' = derive_seed_from_password(password)
    /\ embedded' = 0
    /\ used_positions' = {}
    /\ attempts' = 0
    /\ draws' = 0
    /\ dirDraws' = 0
    /\ embedPos' = <<>>
    /\ UNCHANGED <<inFile, password, complexity_threshold, message_bits,
                   extracted, returned, outFile, extractPos, source>>
    /\ UNCHANGED codecVars

\* lines 109-152: one iteration of the embedding loop
EmbedIter ==
    /\ pc = "embed_loop"
    /\ LoopCondition(embedded, Len(message_bits), attempts, max_attempts)
    /\ \E pos_rand \in {next_u32(prng)} :
       \E pos \in {ModCap(pos_rand, Capacity)} :
       \E x \in {XOf(PixelIndex(pos, UsableChannels(Len(pixels[0]))), width)} :
       \E y \in {YOf(PixelIndex(pos, UsableChannels(Len(pixels[0]))), width)} :
       \E c \in {compute_local_complexity(pixels, x, y, width, height)} :
       LET usable == UsableChannels(Len(pixels[0]))
           pixel_index == PixelIndex(pos, usable)
           channel_index == ChannelIndex(pos, usable)
           current == pixels[pixel_index][channel_index + 1]
           target_bit == message_bits[embedded + 1]
           dir_rand == next_u32(pos_rand)
       IN  /\ attempts' = attempts + 1
           /\ IF c = IndexError
              THEN \* the pixel access inside compute_local_complexity raised
                   /\ pc' = "embed_raised"
                   /\ err' = "IndexError"
                   /\ prng' = pos_rand
                   /\ draws' = draws + 1
                   /\ UNCHANGED <<pixels, used_positions, embedded, embedPos, dirDraws>>
              ELSE IF ComplexityRejects(c, complexity_threshold) \/ AlreadyUsed(pos, used_positions)
              THEN \* continue
                   /\ prng' = pos_rand
                   /\ draws' = draws + 1
                   /\ UNCHANGED <<pc, err, pixels, used_positions, embedded, embedPos, dirDraws>>
              ELSE /\ IF NeedsChange(current, target_bit)
                      THEN IF NeedsDirectionDraw(current)
                           THEN /\ prng' = dir_rand
                                /\ draws' = draws + 2
                                /\ dirDraws' = dirDraws + 1
                                /\ pixels' = SetChannel(pixels, pixel_index, channel_index,
                                                        NewValue(current, LowBit(dir_rand)))
                           ELSE /\ prng' = pos_rand
                                /\ draws' = draws + 1
                                /\ UNCHANGED dirDraws
                                /\ pixels' = SetChannel(pixels, pixel_index, channel_index,
                                                        NewValue(current, 0))
                      ELSE /\ prng' = pos_rand
                           /\ draws' = draws + 1
                           /\ UNCHANGED <<dirDraws, pixels>>
                   /\ used_positions' = used_positions \cup {pos}
                   /\ embedded' = embedded + 1
                   /\ embedPos' = Append(embedPos, pos)
                   /\ UNCHANGED <<pc, err>>
    /\ UNCHANGED <<inFile, password, complexity_threshold, message_bits, width, height,
                   extracted, returned, outFile, extractPos, source>>
    /\ UNCHANGED codecVars

\* lines 154-164: after the loop, raise or save
EmbedExit ==
    /\ pc = "embed_loop"
    /\ ~LoopCondition(embedded, Len(message_bits), attempts, max_attempts)
    /\ IF EndedShort(embedded, Len(message_bits))
       THEN /\ pc' = "embed_raised"
            /\ err' = "BudgetExhausted"
            /\ UNCHANGED outFile
       ELSE /\ pc' = "embed_saved"
            /\ outFile' = <<pixels>>
            /\ UNCHANGED err
    /\ UNCHANGED <<inFile, password, complexity_threshold, message_bits, pixels, width,
                   height, prng, attempts, embedded, used_positions, extracted, returned,
                   draws, dirDraws, embedPos, extractPos, source>>
    /\ UNCHANGED codecVars

(***************************************************************************)
(* extract_message_bits, on the input file or on the file embed saved,     *)
(* with the same password and threshold and num_bits = len(message_bits)   *)
(***************************************************************************)
num_bits == Len(message_bits)

\* lines 182-200
ExtractCall ==
    /\ pc \in {"idle", "embed_saved"}
    /\ LET px == IF pc = "idle" THEN inFile.px ELSE outFile[1]
           cap == total_capacity_bits(inFile.width, inFile.height, px)
       IN  /\ pixels' = px
           /\ source' = IF pc = "idle" THEN "input" ELSE "output"
           /\ IF CapacityExceeded(num_bits, cap)
              THEN /\ pc' = "extract_raised"
                   /\ err' = "CapacityExceeded"
                   /\ UNCHANGED prng
              ELSE /\ pc' = "extract_loop"
                   /\ err' = "none"
                   /\ prng' = derive_seed_from_password(password)
    /\ width' = inFile.width
    /\ height' = inFile.height
    /\ extracted' = <<>>
    /\ attempts' = 0
    /\ used_positions' = {}
    /\ draws' = 0
    /\ extractPos' = <<>>
    /\ UNCHANGED <<inFile, password, complexity_threshold, message_bits, embedded,
                   returned, outFile, dirDraws, embedPos>>
    /\ UNCHANGED codecVars

\* lines 202-220: one iteration of the extraction loop
ExtractIter ==
    /\ pc = "extract_loop"
    /\ LoopCondition(Len(extracted), num_bits, attempts, max_attempts)
    /\ \E pos_rand \in {next_u32(prng)} :
       \E pos \in {ModCap(pos_rand, Capacity)} :
       \E x \in {XOf(PixelIndex(pos, UsableChannels(Len(pixels[0]))), width)} :
       \E y \in {YOf(PixelIndex(pos, UsableChannels(Len(pixels[0]))), width)} :
       \E c \in {compute_local_complexity(pixels, x, y, width, height)} :
       LET usable == UsableChannels(Len(pixels[0]))
           pixel_index == PixelIndex(pos, usable)
           channel_index == ChannelIndex(pos, usable)
       IN  /\ attempts' = attempts + 1
           /\ prng' = pos_rand
           /\ draws' = draws + 1
           /\ IF c = IndexError
              THEN /\ pc' = "extract_raised"
                   /\ err' = "IndexError"
                   /\ UNCHANGED <<extracted, used_positions, extractPos>>
              ELSE IF ComplexityRejects(c, complexity_threshold) \/ AlreadyUsed(pos, used_positions)
              THEN UNCHANGED <<pc, err, extracted, used_positions, extractPos>>
              ELSE /\ extracted' = Append(extracted, ReadBit(pixels[pixel_index][channel_index + 1]))
                   /\ used_positions' = used_positions \cup {pos}
                   /\ extractPos' = Append(extractPos, pos)
                   /\ UNCHANGED <<pc, err>>
    /\ UNCHANGED <<inFile, password, complexity_threshold, message_bits, pixels, width,
                   height, embedded, returned, outFile, dirDraws, embedPos, source>>
    /\ UNCHANGED codecVars

\* lines 222-226: after the loop, raise or return the bits
ExtractExit ==
    /\ pc = "extract_loop"
    /\ ~LoopCondition(Len(extracted), num_bits, attempts, max_attempts)
    /\ IF EndedShort(Len(extracted), num_bits)
       THEN /\ pc' = "extract_raised"
            /\ err' = "BudgetExhausted"
            /\ UNCHANGED returned
       ELSE /\ pc' = "extract_returned"
            /\ returned' = <<extracted>>
            /\ UNCHANGED err
    /\ UNCHANGED <<inFile, password, complexity_threshold, message_bits, pixels, width,
                   height, prng, attempts, embedded, used_positions, extracted, outFile,
                   draws, dirDraws, embedPos, extractPos, source>>
    /\ UNCHANGED codecVars

StegoNext ==
    \/ EmbedCall
    \/ EmbedIter
    \/ EmbedExit
    \/ ExtractCall
    \/ ExtractIter
    \/ ExtractExit

Next == StegoNext

Spec == Init /\ [][Next]_vars

\* the runs checked for termination: one password, the messages of at least
\* MaxMsgLen bits, images whose first pixel is black.  Both loops are plain
\* sequential code: once a call is running its next step is taken (whether
\* embed or extract is called at all is up to the user)
LiveInit ==
    /\ Init
    /\ password = <<120>>
    /\ Len(message_bits) >= MaxMsgLen
    /\ inFile.px[0] \in {<<0, 0, 0>>, <<0, 0, 0, 200>>}

LiveSpec ==
    /\ LiveInit
    /\ [][Next]_vars
    /\ WF_vars(EmbedIter \/ EmbedExit)
    /\ WF_vars(ExtractIter \/ ExtractExit)

(***************************************************************************)
(* Helpers: bits <-> bytes                                                 *)
(***************************************************************************)
ByteWidth == 8
RECURSIVE Pow2(_)
Pow2(i) == IF i = 0 THEN 1 ELSE 2 * Pow2(i - 1)

\* the bit taken from the wrong end of the byte
MutBitOfByte(b, i) == (b \div Pow2((ByteWidth - 1) - i)) % 2

\* (b >> i) & 1
BitOfByte(b, i) == (b \div Pow2(i)) % 2

RECURSIVE ByteBits(_, _)
\* the inner loop of bytes_to_bits: for i in range(7, -1, -1), from i down
ByteBits(b, i) ==
    IF i < 0 THEN <<>> ELSE <<BitOfByte(b, i)>> \o ByteBits(b, i - 1)

RECURSIVE bytes_to_bits(_)
bytes_to_bits(data) ==
    IF data = <<>> THEN <<>>
    ELSE ByteBits(Head(data), ByteWidth - 1) \o bytes_to_bits(Tail(data))

RECURSIVE PadToByte(_)
\* while len(padded) % 8 != 0: padded.append(0)
PadToByte(bits) ==
    IF Len(bits) % ByteWidth = 0 THEN bits ELSE PadToByte(Append(bits, 0))

RECURSIVE PackByte(_, _, _, _)
\* for j in range(8): byte = (byte << 1) | (padded[i + j] & 1)
\* (the shifted byte has a clear low bit, so the or is an addition)
PackByte(padded, i, j, byte) ==
    IF j >= ByteWidth THEN byte
    ELSE PackByte(padded, i, j + 1, (byte * 2) + (padded[i + j + 1] % 2))

RECURSIVE PackFrom(_, _)
\* for i in range(0, len(padded), 8): out.append(byte)
PackFrom(padded, i) ==
    IF i >= Len(padded) THEN <<>>
    ELSE <<PackByte(padded, i, 0, 0)>> \o PackFrom(padded, i + ByteWidth)

bits_to_bytes(bits) == PackFrom(PadToByte(bits), 0)

ByteValues == {0, 1, 104, 105, 128, 255}

\* the codec on its own: data.encode() -> bytes_to_bits -> bits_to_bytes
CodecInit ==
    /\ cdata \in SeqsUpTo(ByteValues, MaxBytes)
    /\ cbits = <<>>
    /\ cout = <<>>
    /\ cpc = "start"
    /\ inFile = [width |-> 1, height |-> 1, px |-> [i \in 0..0 |-> <<0, 0, 0>>]]
    /\ password = <<>>
    /\ complexity_threshold = 0
    /\ message_bits = <<>>
    /\ StegoIdle

Encode ==
    /\ cpc = "start"
    /\ cbits' = bytes_to_bits(cdata)
    /\ cpc' = "encoded"
    /\ UNCHANGED <<cdata, cout>>
    /\ UNCHANGED stegoVars

Decode ==
    /\ cpc = "encoded"
    /\ cout' = bits_to_bytes(cbits)
    /\ cpc' = "decoded"
    /\ UNCHANGED <<cdata, cbits>>
    /\ UNCHANGED stegoVars

CodecNext == Encode \/ Decode

CodecSpec == CodecInit /\ [][CodecNext]_vars

(***************************************************************************)
(* Properties                                                              *)
(***************************************************************************)
InputCapacity == total_capacity_bits(inFile.width, inFile.height, inFile.px)
EmbedEnded == pc \in {"embed_saved", "embed_raised"}
ExtractEnded == pc \in {"extract_returned", "extract_raised"}
\* no element occurs twice in q: as many distinct elements as entries
NoDuplicates(q) == Cardinality({q[i] : i \in 1..Len(q)}) = Len(q)
FlatImage == \A i \in DOMAIN inFile.px : inFile.px[i] = inFile.px[0]

\* C1: round trip under the proviso.  When embed succeeded at threshold 0
\* without ever taking the direction draw, extract run on the saved image
\* with the same password, threshold and num_bits returns exactly the
\* embedded bits, in order (and does return).
C1_RoundTripNoDirectionDraw ==
    (source = "output" /\ complexity_threshold = 0 /\ dirDraws = 0 /\ ExtractEnded)
        => (pc = "extract_returned" /\ returned = <<message_bits>>)

\* a round trip of a message of at least two bits, in which embedding changed
\* the image (0 -> 1 or 255 -> 254 only) and extract returned the message
C1_Witness ==
    /\ pc = "extract_returned"
    /\ source = "output"
    /\ complexity_threshold = 0
    /\ dirDraws = 0
    /\ Len(message_bits) >= 2
    /\ outFile[1] # inFile.px
    /\ returned = <<message_bits>>

\* C2: embed and extract reproduce identical position sequences.  Whenever
\* embed succeeded, extract on the saved image with the same password,
\* threshold and num_bits accepts the same positions in the same order.
C2_SamePositionSequence ==
    (source = "output" /\ ExtractEnded) => extractPos = embedPos

\* C3 as claimed: at threshold 0 an embed call whose message fits never ends
\* in BudgetExhausted.
C3_NeverBudgetExhausted ==
    (complexity_threshold = 0 /\ Len(message_bits) <= InputCapacity)
        => ~(pc = "embed_raised" /\ err = "BudgetExhausted")

\* C3 amended: at threshold 0, with a message that fits, the complexity
\* filter rejects nothing: an iteration that accepts no position drew a
\* position already used.  The call therefore fails only with BudgetExhausted
\* after exactly Capacity * 4 attempts with fewer than len(message_bits)
\* distinct positions drawn, or with the IndexError of
\* compute_local_complexity on an image less than 3 pixels wide or high.
C3_ZeroThresholdOutcome ==
    /\ [][(/\ pc = "embed_loop"
           /\ pc' = "embed_loop"
           /\ complexity_threshold = 0
           /\ attempts' = attempts + 1
           /\ embedded' = embedded)
          => ModCap(prng', Capacity) \in used_positions]_vars
    /\ []((complexity_threshold = 0 /\ Len(message_bits) <= InputCapacity /\ pc = "embed_raised")
          => \/ /\ err = "BudgetExhausted"
                /\ attempts = max_attempts
                /\ embedded < Len(message_bits)
                /\ embedded = Cardinality(used_positions)
             \/ /\ err = "IndexError"
                /\ (width < 3 \/ height < 3))

\* embed at threshold 0 saved a multi-bit message after rejecting at least one
\* repeated position
C3_Witness ==
    /\ pc = "embed_saved"
    /\ complexity_threshold = 0
    /\ Len(message_bits) >= 2
    /\ embedded = Len(message_bits)
    /\ attempts > embedded

\* C4: capacity guard on embed.  A message longer than Capacity makes embed
\* fail with CapacityExceeded before any generator draw; the buffer equals the
\* loaded image pixel for pixel and nothing is saved.
C4_CapacityGuard ==
    (Len(message_bits) > InputCapacity)
        => /\ pc \notin {"embed_loop", "embed_saved"}
           /\ outFile = <<>>
           /\ (pc = "embed_raised"
                 => /\ err = "CapacityExceeded"
                    /\ pixels = inFile.px
                    /\ draws = 0
                    /\ attempts = 0
                    /\ prng = <<0, 0>>)

\* embed was called with a message one bit too long and raised
C4_Witness ==
    /\ pc = "embed_raised"
    /\ err = "CapacityExceeded"
    /\ Len(message_bits) = InputCapacity + 1

\* C5: position uniqueness.  Within one embed call and within one extract
\* call no position is accepted twice, and every accepted position lies in
\* [0, Capacity).
C5_PositionsUnique ==
    /\ NoDuplicates(embedPos)
    /\ NoDuplicates(extractPos)
    /\ \A i \in 1..Len(embedPos) : embedPos[i] \in 0..(InputCapacity - 1)
    /\ \A i \in 1..Len(extractPos) : extractPos[i] \in 0..(InputCapacity - 1)

\* both calls accepted several positions and extract turned down a repeated
\* draw (threshold 0: the only rejections are repetitions)
C5_Witness ==
    /\ pc = "extract_returned"
    /\ complexity_threshold = 0
    /\ Len(embedPos) >= 2
    /\ Len(extractPos) >= 2
    /\ attempts > Len(extractPos)

\* C6: no partial success.  embed saves, and extract returns a bit list, only
\* with exactly the required number of positions accepted; when the budget is
\* exhausted first the call raises BudgetExhausted, extract returns nothing
\* and embed writes nothing.
C6_NoPartialSuccess ==
    /\ (outFile # <<>> => Len(embedPos) = Len(message_bits))
    /\ (returned # <<>> => (Len(returned[1]) = num_bits /\ Len(extractPos) = num_bits))
    /\ ((pc = "embed_raised") => outFile = <<>>)
    /\ ((pc = "extract_raised") => returned = <<>>)
    /\ ((EmbedEnded /\ Len(embedPos) < Len(message_bits)) => pc = "embed_raised")
    /\ ((ExtractEnded /\ Len(extractPos) < num_bits) => pc = "extract_raised")
    /\ ((pc = "embed_raised" /\ err = "BudgetExhausted")
          => (attempts = max_attempts /\ embedded < Len(message_bits)))
    /\ ((pc = "extract_raised" /\ err = "BudgetExhausted")
          => (attempts = max_attempts /\ Len(extracted) < num_bits))

\* embed ran out of budget after it had already changed the buffer; the
\* changed buffer was not written
C6_Witness ==
    /\ pc = "embed_raised"
    /\ err = "BudgetExhausted"
    /\ embedded > 0
    /\ pixels # inFile.px
    /\ outFile = <<>>

\* C7: flat image exhaustion.  On an image whose pixels are all equal, with
\* threshold > 0 and 1 <= N <= Capacity, embed and extract accept nothing, use
\* the whole budget and fail with BudgetExhausted; embed leaves the buffer
\* unchanged.
C7_FlatImageExhaustsBudget ==
    (FlatImage /\ complexity_threshold > 0
       /\ Len(message_bits) >= 1 /\ Len(message_bits) <= InputCapacity)
        => /\ pc \notin {"embed_saved", "extract_returned"}
           /\ embedPos = <<>>
           /\ extractPos = <<>>
           /\ (pc \in {"embed_raised", "extract_raised"}
                 => /\ err = "BudgetExhausted"
                    /\ attempts = max_attempts
                    /\ pixels = inFile.px)

\* C8: attempt budget and termination.  A call never performs more than
\* Capacity * max_attempt_factor loop iterations, and every embed and every
\* extract call that entered its loop ends (saved, returned or raised).
C8_BudgetAndTermination ==
    /\ [](pc # "idle" => attempts <= max_attempts)
    /\ ((pc = "embed_loop") ~> EmbedEnded)
    /\ ((pc = "extract_loop") ~> ExtractEnded)

\* an embed call used its whole budget and ended
C8_Witness ==
    /\ pc = "embed_raised"
    /\ err = "BudgetExhausted"
    /\ attempts = max_attempts
    /\ attempts > 0

\* the complexity compute_local_complexity reports for a position, on a buffer
PositionComplexity(px, pos) ==
    compute_local_complexity(px,
        XOf(PixelIndex(pos, UsableChannels(Len(px[0]))), width),
        YOf(PixelIndex(pos, UsableChannels(Len(px[0]))), width),
        width, height)

\* C9: complexity gating.  Every position accepted by embed or by extract has
\* complexity >= threshold on the buffer as it is when the position is
\* accepted (before embed writes the channel).
C9_ComplexityGating ==
    [][/\ (Len(embedPos') = Len(embedPos) + 1
             => /\ PositionComplexity(pixels, embedPos'[Len(embedPos')]) # IndexError
                /\ PositionComplexity(pixels, embedPos'[Len(embedPos')]) >= complexity_threshold)
       /\ (Len(extractPos') = Len(extractPos) + 1
             => /\ PositionComplexity(pixels, extractPos'[Len(extractPos')]) # IndexError
                /\ PositionComplexity(pixels, extractPos'[Len(extractPos')]) >= complexity_threshold)]_vars

\* embed accepted positions under a positive threshold in an image that also
\* has a region below the threshold, where draws were rejected
C9_Witness ==
    /\ pc = "embed_saved"
    /\ complexity_threshold > 0
    /\ Len(embedPos) >= 2
    /\ \E p \in 0..(Capacity - 1) :
          PositionComplexity(pixels, p) < complexity_threshold
    /\ \E p \in 0..(Capacity - 1) :
          PositionComplexity(pixels, p) >= complexity_threshold

\* C10: codec round trip.  bits_to_bytes(bytes_to_bits(d)) = d, and
\* bytes_to_bits(d) has 8 * len(d) bits, byte k giving bits 8k..8k+7 most
\* significant bit first.
C10_CodecRoundTrip ==
    /\ (cpc \in {"encoded", "decoded"}
          => /\ Len(cbits) = 8 * Len(cdata)
             /\ \A k \in 1..Len(cdata) : \A j \in 0..7 :
                   cbits[(8 * (k - 1)) + j + 1] = (cdata[k] \div Pow2(7 - j)) % 2)
    /\ (cpc = "decoded" => cout = cdata)

\* the two bytes of "hi" went through both conversions
C10_Witness ==
    /\ cpc = "decoded"
    /\ cdata = <<104, 105>>
    /\ cbits = <<0, 1, 1, 0, 1, 0, 0, 0, 0, 1, 1, 0, 1, 0, 0, 1>>
    /\ cout = <<104, 105>>

(***************************************************************************)
(* derive_seed_from_password on its own                                    *)
(***************************************************************************)
MaxSeedLen == 26
SeedChars == {0, 1, 2, 120, 3562, 900847, 1114111}

\* passwords of up to two characters, and longer ones whose first and last
\* characters are drawn and whose middle is chr(0): the last character is
\* shifted by (n - 1) mod 24, so the shifts pass 32 bits and wrap around
SeedPasswords ==
    SeqsUpTo(SeedChars, 2)
      \cup { [i \in 1..n |-> IF i = 1 THEN ab[1] ELSE IF i = n THEN ab[2] ELSE 0] :
               n \in 3..MaxSeedLen, ab \in SeedChars \X SeedChars }

SeedInit ==
    /\ password \in SeedPasswords
    /\ inFile = [width |-> 1, height |-> 1, px |-> [i \in 0..0 |-> <<0, 0, 0>>]]
    /\ complexity_threshold = 0
    /\ message_bits = <<>>
    /\ StegoIdle
    /\ cdata = <<>>
    /\ cbits = <<>>
    /\ cout = <<>>
    /\ cpc = "seed"

\* line 101 / line 194: seed = derive_seed_from_password(password);
\* line 21: SimplePRNG(seed) keeps seed & 0xFFFFFFFF as its state
DeriveSeed ==
    /\ cpc = "seed"
    /\ prng' = derive_seed_from_password(password)
    /\ cpc' = "seeded"
    /\ UNCHANGED <<inFile, password, complexity_threshold, message_bits, pc, err,
                   pixels, width, height, attempts, embedded, used_positions,
                   extracted, returned, outFile, draws, dirDraws, embedPos,
                   extractPos, source>>
    /\ UNCHANGED <<cdata, cbits, cout>>

SeedSpec == SeedInit /\ [][DeriveSeed]_vars

\* bit k (0..31) of the 32-bit value kept as limbs
BitOfWord(p, k) == IF k >= 16 THEN (p[1] \div Pow2(k - 16)) % 2 ELSE (p[2] \div Pow2(k)) % 2

\* bit k of the XOR over i of (code point i << (i mod 24)), stated bit by bit:
\* the parity of the number of characters whose shifted code point has bit k
AccumulatorBit(pw, k) ==
    Cardinality({i \in 1..Len(pw) :
        /\ k >= (i - 1) % 24
        /\ k - ((i - 1) % 24) <= 21
        /\ (pw[i] \div Pow2(k - ((i - 1) % 24))) % 2 = 1}) % 2

AccumulatorZero(pw) == \A k \in 0..31 : AccumulatorBit(pw, k) = 0

\* C11 as claimed: the seed is the fallback constant exactly when the
\* accumulator is zero.
C11_FallbackExactlyWhenZero ==
    (cpc = "seeded")
        => ((prng = <<FallbackHi, FallbackLo>>) <=> AccumulatorZero(password))

\* C11 amended: the seed is an integer in [1, 2^32 - 1]; it is the fallback
\* constant whenever the accumulator is zero (the empty password included) and
\* the accumulator itself otherwise, which can be 0xDEADBEEF as well.
C11_SeedDerivation ==
    (cpc = "seeded")
        => /\ prng[1] \in 0..65535
           /\ prng[2] \in 0..65535
           /\ prng # <<0, 0>>
           /\ (AccumulatorZero(password) => prng = <<FallbackHi, FallbackLo>>)
           /\ (~AccumulatorZero(password)
                 => \A k \in 0..31 : BitOfWord(prng, k) = AccumulatorBit(password, k))
           /\ (password = <<>> => prng = <<FallbackHi, FallbackLo>>)

\* a non-empty password whose accumulator cancels to zero got the fallback
C11_Witness ==
    /\ cpc = "seeded"
    /\ password = <<2, 1>>
    /\ AccumulatorZero(password)
    /\ prng = <<FallbackHi, FallbackLo>>

\* C12: capacity guard on extract.  With num_bits > Capacity extract fails
\* before any generator draw: the generator is never seeded or stepped, no
\* iteration runs and no bit is read.
C12_ExtractCapacityGuard ==
    (num_bits > InputCapacity)
        => /\ pc \notin {"extract_loop", "extract_returned"}
           /\ returned = <<>>
           /\ (pc = "extract_raised"
                 => /\ err = "CapacityExceeded"
                    /\ draws = 0
                    /\ attempts = 0
                    /\ prng = <<0, 0>>
                    /\ extracted = <<>>
                    /\ extractPos = <<>>)

\* extract was asked for one bit more than the capacity and raised
C12_Witness ==
    /\ pc = "extract_raised"
    /\ err = "CapacityExceeded"
    /\ source = "input"
    /\ num_bits = InputCapacity + 1

\* the pixel and the channel (1-based) a position addresses in the buffer
PixelOfPos(pos) == PixelIndex(pos, UsableChannels(Len(pixels[0])))
ChannelOfPos(pos) == ChannelIndex(pos, UsableChannels(Len(pixels[0]))) + 1

\* C13: LSB matching step.  For a position accepted by embed with channel
\* value v and target bit b, the value v' left in the channel has v' mod 2 = b,
\* |v' - v| <= 1 and 0 <= v' <= 255; v' = v when v mod 2 = b, otherwise v' = 1
\* when v = 0 and v' = 254 when v = 255; the direction draw is taken exactly
\* when v mod 2 # b and 0 < v < 255 (an accepting step makes two draws then,
\* one otherwise, and a rejecting step always one).
C13_LsbMatchingStep ==
    [][(pc = "embed_loop" /\ attempts' = attempts + 1)
        => /\ (embedded' = embedded + 1
                => LET pos == embedPos'[Len(embedPos')]
                       v == pixels[PixelOfPos(pos)][ChannelOfPos(pos)]
                       w == pixels'[PixelOfPos(pos)][ChannelOfPos(pos)]
                       b == message_bits[embedded + 1]
                   IN  /\ w % 2 = b
                       /\ w - v \in {-1, 0, 1}
                       /\ w \in 0..255
                       /\ (v % 2 = b => w = v)
                       /\ ((v % 2 # b /\ v = 0) => w = 1)
                       /\ ((v % 2 # b /\ v = 255) => w = 254)
                       /\ ((v % 2 # b /\ v > 0 /\ v < 255)
                             <=> (draws' = draws + 2 /\ dirDraws' = dirDraws + 1))
                       /\ (~(v % 2 # b /\ v > 0 /\ v < 255)
                             => (draws' = draws + 1 /\ dirDraws' = dirDraws)))
           /\ (embedded' = embedded => (draws' = draws + 1 /\ dirDraws' = dirDraws))]_vars

\* embed finished a message during which it stepped 255 down to 254 without a
\* direction draw and stepped a middle value with one
C13_Witness ==
    /\ pc = "embed_saved"
    /\ dirDraws >= 1
    /\ draws > attempts
    /\ \E i \in DOMAIN pixels : \E ch \in 1..3 :
          inFile.px[i][ch] = 255 /\ pixels[i][ch] = 254
    /\ \E i \in DOMAIN pixels : \E ch \in 1..3 :
          inFile.px[i][ch] \in 1..254 /\ pixels[i][ch] # inFile.px[i][ch]

\* C14: the complexity estimator stays inside the buffer.  For every loaded
\* image (width >= 1, height >= 1) and every coordinate of it, the clamped
\* centre lies in [1, width-2] x [1, height-2], the centre and its four
\* neighbours are inside the buffer (no access raises) and the result is a
\* non-negative integer.
C14_ComplexityInsideBuffer ==
    (pc # "idle")
        => \A x \in 0..(width - 1) : \A y \in 0..(height - 1) :
              /\ clamp(x, 1, width - 2) \in 1..(width - 2)
              /\ clamp(y, 1, height - 2) \in 1..(height - 2)
              /\ InGrid(clamp(x, 1, width - 2), clamp(y, 1, height - 2), width, height)
              /\ \A d \in NeighbourOffsets :
                    InGrid(clamp(x, 1, width - 2) + d[1], clamp(y, 1, height - 2) + d[2],
                           width, height)
              /\ compute_local_complexity(pixels, x, y, width, height) # IndexError
              /\ compute_local_complexity(pixels, x, y, width, height) >= 0

\* C15: embed frame condition.  An embedding step changes at most one channel
\* value of the buffer: the channel (position mod 3, never the alpha channel)
\* of the pixel (position div 3) of the position it accepted; a step that
\* rejects its draw changes nothing, and the buffer keeps its shape.
C15_EmbedFrame ==
    [][(pc = "embed_loop")
        => /\ DOMAIN pixels' = DOMAIN pixels
           /\ \A i \in DOMAIN pixels :
                 /\ Len(pixels'[i]) = Len(pixels[i])
                 /\ \A ch \in 1..Len(pixels[i]) :
                       (pixels'[i][ch] # pixels[i][ch])
                          => /\ embedded' = embedded + 1
                             /\ i = embedPos'[Len(embedPos')] \div 3
                             /\ ch = (embedPos'[Len(embedPos')] % 3) + 1
                             /\ ch <= 3]_vars

\* embed saved an RGBA image in which it changed colour channels; every alpha
\* value is as loaded
C15_Witness ==
    /\ pc = "embed_saved"
    /\ Len(pixels[0]) = 4
    /\ pixels # inFile.px
    /\ Len(embedPos) >= 2
    /\ \A i \in DOMAIN pixels : pixels[i][4] = inFile.px[i][4]

\* the file extract loaded
LoadedFile == IF source = "output" THEN outFile[1] ELSE inFile.px

\* C16: the extract path is read-only and draws once per attempt.  During
\* extract the buffer stays equal to the loaded file, the generator starts at
\* the seed and every iteration steps it exactly once (so after k attempts it
\* holds the k-th iterate of the seed and k draws were made), and an accepted
\* position appends the least-significant bit of its channel, unmodified.
C16_ExtractReadOnly ==
    /\ [](pc \in {"extract_loop", "extract_returned", "extract_raised"}
            => (pixels = LoadedFile /\ draws = attempts))
    /\ [][(pc' = "extract_loop" /\ pc # "extract_loop")
            => prng' = derive_seed_from_password(password)]_vars
    /\ [][(pc = "extract_loop" /\ attempts' = attempts + 1)
            => /\ prng' = next_u32(prng)
               /\ pixels' = pixels
               /\ (Len(extractPos') = Len(extractPos) + 1
                     => LET pos == extractPos'[Len(extractPos')]
                        IN  /\ pos = ModCap(prng', Capacity)
                            /\ extracted' = Append(extracted,
                                  LoadedFile[pos \div 3][(pos % 3) + 1] % 2))
               /\ (Len(extractPos') = Len(extractPos) => extracted' = extracted)]_vars

\* extract returned several bits read from a saved image after more attempts
\* than bits, with one draw per attempt
C16_Witness ==
    /\ pc = "extract_returned"
    /\ source = "output"
    /\ Len(extracted) >= 2
    /\ attempts > Len(extracted)
    /\ draws = attempts
    /\ pixels = outFile[1]

\* C17: embedded bits survive later steps.  In the image a successful embed
\* saved, the channel at the i-th accepted position has least-significant bit
\* message_bits[i], for every i; while embed runs the same holds of the
\* buffer for the bits embedded so far.
C17_EmbeddedBitsSurvive ==
    /\ (outFile # <<>>
          => /\ Len(embedPos) = Len(message_bits)
             /\ \A i \in 1..Len(message_bits) :
                   outFile[1][embedPos[i] \div 3][(embedPos[i] % 3) + 1] % 2 = message_bits[i])
    /\ (pc = "embed_loop"
          => \A i \in 1..Len(embedPos) :
                pixels[embedPos[i] \div 3][(embedPos[i] % 3) + 1] % 2 = message_bits[i])

\* embed saved a message holding both bit values after changing the buffer
\* with direction draws
C17_Witness ==
    /\ pc = "embed_saved"
    /\ Len(message_bits) >= 2
    /\ message_bits[1] # message_bits[2]
    /\ dirDraws >= 1
    /\ outFile[1] # inFile.px

\* the number of positions the call in progress (or just ended) has accepted
AcceptedCount ==
    IF pc \in {"extract_loop", "extract_returned", "extract_raised"}
    THEN Len(extracted) ELSE embedded

\* C18: scheduler bookkeeping.  In every state of the embed and extract
\* loops, accepted count = |used_positions| <= attempts <= Capacity *
\* max_attempt_factor, accepted count <= required count, every member of
\* used_positions lies in [0, Capacity), and used_positions only grows during
\* a call (by exactly the accepted position).
C18_SchedulerBookkeeping ==
    /\ [](pc # "idle"
            => /\ AcceptedCount = Cardinality(used_positions)
               /\ Cardinality(used_positions) <= attempts
               /\ attempts <= max_attempts
               /\ AcceptedCount <= Len(message_bits)
               /\ used_positions \subseteq 0..(Capacity - 1))
    /\ [][(pc \in {"embed_loop", "extract_loop"})
            => /\ used_positions \subseteq used_positions'
               /\ Cardinality(used_positions') <= Cardinality(used_positions) + 1]_vars

\* an extract call ended with several positions used, fewer than its attempts
C18_Witness ==
    /\ pc = "extract_returned"
    /\ Cardinality(used_positions) >= 2
    /\ Cardinality(used_positions) = Len(extracted)
    /\ attempts > Cardinality(used_positions)
    /\ attempts < max_attempts

====
